---- MODULE Spec2Model ----
(***************************************************************************)
(* Model of the dependency-parsing demo: the DependencyParser class of     *)
(* 0107.py (model loading, the SQLite store, the two parse methods,        *)
(* save_to_database, get_statistics), the free function                    *)
(* create_visualization, and the two front ends (demo.py main, the         *)
(* Streamlit main of 0107.py).                                             *)
(*                                                                         *)
(* A text is a sequence of segments: a segment is either the whitespace    *)
(* segment " " or a stretch of characters that begins and ends with a      *)
(* non-whitespace character.  The pretrained models are oracles: the model *)
(* draws their outputs from bounded sets.                                  *)
(***************************************************************************)
EXTENDS Integers, Sequences, FiniteSets, TLC

VARIABLES
    TRANSFORMERS_AVAILABLE, \* module flag set by the import at 0107.py:22-27
    nlp,                    \* self.nlp: None or the loaded spaCy model
    transformer_parser,     \* self.transformer_parser: None or the pipeline
    db,                     \* the committed content of dependency_parsing.db
    txn,                    \* rows written on self.conn and not yet committed
    call,                   \* the operation that ran last, with its arguments
    ret                     \* what that operation returned (or raised)

vars == <<TRANSFORMERS_AVAILABLE, nlp, transformer_parser, db, txn, call, ret>>

(***************************************************************************)
(* Bounds of the model.                                                    *)
(***************************************************************************)
\* user rows (rows written by save_to_database) the store may hold
MaxSaved == 2
\* batches of sample rows the store may hold (one batch per init_database)
MaxInits == 2
\* words of a text handed to the parse methods
MaxTokens == 2
\* length of a list handed to create_visualization directly
MaxListLen == 2
\* distinct labels of the dependencies table get_statistics groups
MaxLabels == 11

None == "None"

\* a local variable of a front end that was never assigned
Unbound == [unbound |-> TRUE]

(***************************************************************************)
(* Generic helpers.                                                        *)
(***************************************************************************)
Min(a, b) == IF a < b THEN a ELSE b

RECURSIVE SumSeq(_)
SumSeq(s) == IF s = <<>> THEN 0 ELSE Head(s) + SumSeq(Tail(s))

Range(s) == {s[i] : i \in 1..Len(s)}

\* all sequences over S of length 0..n
SeqsUpTo(S, n) == UNION {[1..k -> S] : k \in 0..n}

(***************************************************************************)
(* Texts.                                                                  *)
(***************************************************************************)
Space == " "

IsSpace(seg) == seg = Space

\* str.strip(): drop leading and trailing whitespace
RECURSIVE LStrip(_)
LStrip(text) ==
    IF text # <<>> /\ IsSpace(Head(text)) THEN LStrip(Tail(text)) ELSE text

RECURSIVE RStrip(_)
RStrip(text) ==
    IF text # <<>> /\ IsSpace(text[Len(text)])
    THEN RStrip(SubSeq(text, 1, Len(text) - 1))
    ELSE text

strip(text) == RStrip(LStrip(text))

\* the sample_sentences list of init_database (each begins and ends with a
\* non-whitespace character and is kept as one segment)
sample_sentences == <<
    <<"The quick brown fox jumps over the lazy dog.">>,
    <<"Natural language processing is a fascinating field of artificial intelligence.">>,
    <<"Machine learning models can understand complex linguistic patterns.">>,
    <<"Dependency parsing reveals the grammatical structure of sentences.">>,
    <<"The beautiful sunset painted the sky with vibrant colors.">> >>

\* the words the bounded inputs are made of
Words == {"fox", "jumps"}

\* the texts a caller hands to save_to_database
Texts == { <<>>, <<"fox", " ", "jumps">> }

(***************************************************************************)
(* The spaCy oracle: self.nlp(text) yields a Doc, a sequence of tokens,    *)
(* each with one head in the same Doc; following heads reaches a root,     *)
(* a token that is its own head.                                           *)
(***************************************************************************)
\* the token texts of a text: its words; an all-whitespace text is one
\* whitespace token per segment; the empty text has no token
TokenTexts(text) ==
    IF \A i \in 1..Len(text) : IsSpace(text[i])
    THEN text
    ELSE SelectSeq(text, LAMBDA seg : ~IsSpace(seg))

RECURSIVE ReachesRoot(_, _, _)
ReachesRoot(h, i, fuel) ==
    IF h[i] = i THEN TRUE
    ELSE IF fuel = 0 THEN FALSE
    ELSE ReachesRoot(h, h[i], fuel - 1)

\* the head assignments of n tokens: every token reaches a root
Heads(n) == {h \in [1..n -> 1..n] : \A i \in 1..n : ReachesRoot(h, i, n)}

PosTag(w) ==
    IF IsSpace(w) THEN "SPACE"
    ELSE IF w = "jumps" THEN "VERB"
    ELSE IF w = "." THEN "PUNCT"
    ELSE "NOUN"

Lemma(w) == IF w = "jumps" THEN "jump" ELSE w

\* the token of word w at position i whose head is position h
Token(w, i, h) ==
    [text |-> w, i |-> i, pos_ |-> PosTag(w),
     dep_ |-> IF h = i THEN "ROOT" ELSE "nsubj",
     head |-> h, lemma_ |-> Lemma(w),
     is_punct |-> (w = "."), is_space |-> IsSpace(w)]

\* the Docs the model may produce for a text
Docs(text) ==
    LET ws == TokenTexts(text)
        n  == Len(ws)
    IN  {[tokens |-> [i \in 1..n |-> Token(ws[i], i, h[i])],
          sents  |-> IF n = 0 THEN <<>> ELSE <<text>>,
          ents   |-> <<>>] : h \in Heads(n)}

(***************************************************************************)
(* DependencyParser.parse_with_spacy                                       *)
(***************************************************************************)
\* the record appended for one token of the Doc
DependencyRecord(doc, i) ==
    LET token == doc.tokens[i]
        head  == doc.tokens[token.head]
    IN  [token    |-> token.text,
         pos      |-> token.pos_,
         dep      |-> token.dep_,
         head     |-> head.text,
         head_pos |-> head.pos_,
         lemma    |-> token.lemma_,
         is_punct |-> token.is_punct,
         is_space |-> token.is_space]

\* parse_with_spacy leaving out the whitespace tokens
parse_with_spacy_skip_space(model, text, doc) ==
    IF model = None
    THEN [error |-> "spaCy model not loaded"]
    ELSE [model        |-> "spaCy",
          dependencies |->
              SelectSeq([i \in 1..Len(doc.tokens) |-> DependencyRecord(doc, i)],
                        LAMBDA dep : ~dep.is_space),
          sentences    |-> doc.sents,
          entities     |-> doc.ents]

\* parse_with_spacy(text), doc being what self.nlp(text) yields
parse_with_spacy(model, text, doc) ==
    IF model = None
    THEN [error |-> "spaCy model not loaded"]
    ELSE [model        |-> "spaCy",
          dependencies |-> [i \in 1..Len(doc.tokens) |-> DependencyRecord(doc, i)],
          sentences    |-> doc.sents,
          entities     |-> doc.ents]

(***************************************************************************)
(* DependencyParser.parse_with_transformers                                *)
(***************************************************************************)
\* what the pipeline call does for a text: it raises, or yields entity groups
\* (scores in hundredths)
PipelineOutcomes(text) ==
    {[raised |-> TRUE, results |-> <<>>],
     [raised |-> FALSE, results |-> <<>>]}
    \cup {[raised |-> FALSE,
           results |-> <<[entity_group |-> "MISC", score |-> 90, word |-> w]>>]
          : w \in Range(TokenTexts(text)) \cap Words}

\* np.mean of the scores, kept as the fraction sum / n; 0 for no result
Confidence(results) ==
    IF results # <<>>
    THEN [sum |-> SumSeq([i \in 1..Len(results) |-> results[i].score]),
          n   |-> Len(results)]
    ELSE [sum |-> 0, n |-> 1]

\* parse_with_transformers without its try/except: the exception leaves it
parse_with_transformers_no_except(pipe, text, outcome) ==
    IF pipe = None
    THEN [error |-> "Transformer model not loaded"]
    ELSE IF outcome.raised
    THEN [raised |-> "Exception"]
    ELSE [model      |-> "Transformers",
          results    |-> outcome.results,
          confidence |-> Confidence(outcome.results)]

\* parse_with_transformers(text), outcome being what the pipeline call does
parse_with_transformers(pipe, text, outcome) ==
    IF pipe = None
    THEN [error |-> "Transformer model not loaded"]
    ELSE IF outcome.raised
    THEN [error |-> "Transformer parsing failed"]
    ELSE [model      |-> "Transformers",
          results    |-> outcome.results,
          confidence |-> Confidence(outcome.results)]

(***************************************************************************)
(* The SQLite store.  db is the committed content of the file; txn holds   *)
(* the rows the connection has inserted since its last commit (sqlite3     *)
(* opens a transaction before the first INSERT and keeps it open until     *)
(* commit).  Statements on the connection see ConnView.                    *)
(***************************************************************************)
NoFile == [tables |-> {}, sentences |-> <<>>, dependencies |-> <<>>]

NoTxn == [sentences |-> <<>>, dependencies |-> <<>>]

ConnView(d, t) ==
    [tables       |-> d.tables,
     sentences    |-> d.sentences \o t.sentences,
     dependencies |-> d.dependencies \o t.dependencies]

\* conn.commit()
Commit(d, t) == ConnView(d, t)

\* id INTEGER PRIMARY KEY AUTOINCREMENT: one more than the largest id used
\* (no statement of the program deletes a row)
RECURSIVE MaxId(_, _)
MaxId(rows, k) ==
    IF k = 0 THEN 0
    ELSE LET m == MaxId(rows, k - 1)
         IN  IF rows[k].id > m THEN rows[k].id ELSE m

NextId(rows) == MaxId(rows, Len(rows)) + 1

\* CREATE TABLE IF NOT EXISTS name
CreateTableIfNotExists(d, name) ==
    IF name \in d.tables THEN d
    ELSE [d EXCEPT !.tables = @ \cup {name}, ![name] = <<>>]

\* the row INSERT INTO sentences (text) VALUES (?) makes
SentenceRow(rows, text) == [id |-> NextId(rows), text |-> text, language |-> "en"]

\* the columns of the sentences table that carry a uniqueness constraint
\* (id INTEGER PRIMARY KEY; text is only NOT NULL)
SentencesUnique == {"id"}

\* whether INSERT INTO sentences (text) VALUES (text) violates a constraint:
\* the id is generated fresh, and text is never NULL here
ViolatesConstraint(rows, text) ==
    "text" \in SentencesUnique /\ \E i \in 1..Len(rows) : rows[i].text = text

\* INSERT OR IGNORE INTO sentences (text) VALUES (?)
InsertOrIgnore(rows, text) ==
    IF ViolatesConstraint(rows, text) THEN rows
    ELSE Append(rows, SentenceRow(rows, text))

RECURSIVE InsertSamples(_, _)
InsertSamples(rows, k) ==
    IF k > Len(sample_sentences) THEN rows
    ELSE InsertSamples(InsertOrIgnore(rows, sample_sentences[k]), k + 1)

\* init_database on the file content d: a new connection, the two tables,
\* the sample rows, commit
init_database(d) ==
    LET d1 == CreateTableIfNotExists(d, "sentences")
        d2 == CreateTableIfNotExists(d1, "dependencies")
    IN  [d2 EXCEPT !.sentences = InsertSamples(d2.sentences, 1)]

\* load_models: spacyFound says whether spacy.load finds the model,
\* pipelineLoads whether pipeline(...) returns
load_models(available, spacyFound, pipelineLoads) ==
    IF ~spacyFound
    THEN [nlp |-> None, transformer_parser |-> None]
    ELSE [nlp |-> "en_core_web_sm",
          transformer_parser |->
              IF available /\ pipelineLoads THEN "token-classification" ELSE None]

(***************************************************************************)
(* DependencyParser.save_to_database                                       *)
(***************************************************************************)
\* the keys save_to_database reads of a dependency record
SavedKeys == {"token", "pos", "dep", "head", "head_pos"}

\* the first dependency record whose INSERT raises KeyError, 0 for none
FirstKeyError(results) ==
    LET deps == results.dependencies
        bad  == {i \in 1..Len(deps) :
                    ~(SavedKeys \subseteq DOMAIN deps[i])
                    \/ "model" \notin DOMAIN results}
    IN  IF bad = {} THEN 0 ELSE CHOOSE i \in bad : \A j \in bad : i <= j

\* the row with the token and head columns bound in the wrong order
DependencyRowSwapped(id, sentence_id, dep, model_type) ==
    [id               |-> id,
     sentence_id      |-> sentence_id,
     token_text       |-> dep.head,
     token_pos        |-> dep.pos,
     dependency_label |-> dep.dep,
     head_text        |-> dep.token,
     head_pos         |-> dep.head_pos,
     model_type       |-> model_type,
     confidence       |-> None]

\* the dependencies row inserted for record dep
DependencyRow(id, sentence_id, dep, model_type) ==
    [id               |-> id,
     sentence_id      |-> sentence_id,
     token_text       |-> dep.token,
     token_pos        |-> dep.pos,
     dependency_label |-> dep.dep,
     head_text        |-> dep.head,
     head_pos         |-> dep.head_pos,
     model_type       |-> model_type,
     confidence       |-> None]

\* the rows save_to_database writes before it commits or raises: the
\* sentence row with id sentence_id, then one dependencies row per record up
\* to the first that raises, ids from base on
SaveRows(t, text, results, sentence_id, base, bad) ==
    LET n == IF "dependencies" \notin DOMAIN results THEN 0
             ELSE IF bad = 0 THEN Len(results.dependencies)
             ELSE bad - 1
    IN  [sentences    |-> Append(t.sentences,
                                 [id |-> sentence_id, text |-> text,
                                  language |-> "en"]),
         dependencies |-> t.dependencies \o
                          [i \in 1..n |->
                             DependencyRow(base + i - 1, sentence_id,
                                           results.dependencies[i],
                                           results.model)]]

\* save_to_database returning the lastrowid it read before its INSERT
SaveOutcomeStaleId(d, t1, sentence_id, bad) ==
    IF bad # 0
    THEN [db |-> d, txn |-> t1, raised |-> TRUE, value |-> 0]
    ELSE [db |-> Commit(d, t1), txn |-> NoTxn, raised |-> FALSE,
          value |-> sentence_id - 1]

\* the outcome of save_to_database once its rows t1 are written: it raised
\* KeyError and left them uncommitted, or it committed and returns the id
SaveOutcome(d, t1, sentence_id, bad) ==
    IF bad # 0
    THEN [db |-> d, txn |-> t1, raised |-> TRUE, value |-> 0]
    ELSE [db |-> Commit(d, t1), txn |-> NoTxn, raised |-> FALSE,
          value |-> sentence_id]

\* save_to_database(text, results) on committed content d with pending t:
\* the new d and t, whether it raised, and the value returned
SaveOnView(d, t, view, text, results, sentence_id, bad) ==
    SaveOutcome(d,
                SaveRows(t, text, results, sentence_id,
                         NextId(view.dependencies), bad),
                sentence_id, bad)

\* save_to_database taking the new sentence id from the committed rows only
save_to_database_committed_id(d, t, text, results) ==
    SaveOnView(d, t, ConnView(d, t), text, results,
               NextId(d.sentences),
               IF "dependencies" \in DOMAIN results
               THEN FirstKeyError(results) ELSE 0)

save_to_database(d, t, text, results) ==
    SaveOnView(d, t, ConnView(d, t), text, results,
               NextId(d.sentences \o t.sentences),
               IF "dependencies" \in DOMAIN results
               THEN FirstKeyError(results) ELSE 0)

(***************************************************************************)
(* DependencyParser.get_statistics                                         *)
(***************************************************************************)
\* LIMIT 10
StatsLimit == 10

\* SELECT col, COUNT(*) ... GROUP BY col: the set of <<value, count>>
GroupCount(rows, col) ==
    {<<v, Cardinality({i \in 1..Len(rows) : rows[i][col] = v})>> :
        v \in {rows[i][col] : i \in 1..Len(rows)}}

\* ORDER BY count DESC: every order of the groups by count non-increasing
\* (SQLite leaves the order of equal counts open); the first row is any
\* group of the largest count, the rest an order of the other groups
RECURSIVE OrderByCountDesc(_)
OrderByCountDesc(groups) ==
    IF groups = {} THEN {<<>>}
    ELSE LET top == {g \in groups : \A h \in groups : g[2] >= h[2]}
         IN  UNION {{<<g>> \o s : s \in OrderByCountDesc(groups \ {g})} :
                       g \in top}

\* ORDER BY count DESC without the LIMIT clause
OrderByCountDescNoLimit(groups, n) == OrderByCountDesc(groups)

\* ORDER BY count DESC LIMIT n: the first n rows of the order
OrderByCountDescLimit(groups, n) ==
    {SubSeq(s, 1, Min(n, Len(s))) : s \in OrderByCountDesc(groups)}

\* get_statistics running its first COUNT(*) query twice
get_statistics_one_count(view) ==
    {[sentence_count      |-> Len(view.sentences),
      dependency_count    |-> Len(view.sentences),
      common_dependencies |-> cd,
      common_pos_tags     |-> cp] :
        cd \in OrderByCountDescLimit(
                   GroupCount(view.dependencies, "dependency_label"), StatsLimit),
        cp \in OrderByCountDescLimit(
                   GroupCount(view.dependencies, "token_pos"), StatsLimit)}

\* the records get_statistics may return on the connection's view
get_statistics(view) ==
    {[sentence_count      |-> Len(view.sentences),
      dependency_count    |-> Len(view.dependencies),
      common_dependencies |-> cd,
      common_pos_tags     |-> cp] :
        cd \in OrderByCountDescLimit(
                   GroupCount(view.dependencies, "dependency_label"), StatsLimit),
        cp \in OrderByCountDescLimit(
                   GroupCount(view.dependencies, "token_pos"), StatsLimit)}

(***************************************************************************)
(* Strings that hold JSON.  A str is a sequence of lexical tokens: the     *)
(* punctuation of JSON, string literals (str is the text the literal       *)
(* denotes, escapes resolved), numbers, and plain text that is no JSON.    *)
(***************************************************************************)
Punct(ch) == <<[kind |-> "punct", ch |-> ch]>>

JString(str) == <<[kind |-> "string", str |-> str]>>

JNumber(num) == <<[kind |-> "number", num |-> num]>>

PlainText(text) == <<[kind |-> "text", text |-> text]>>

\* the items, each already encoded, with ", " between them
RECURSIVE JoinComma(_)
JoinComma(items) ==
    IF items = <<>> THEN <<>>
    ELSE IF Len(items) = 1 THEN items[1]
    ELSE items[1] \o Punct(",") \o JoinComma(Tail(items))

\* json.dumps of a list whose elements encode as items
JArray(items) == Punct("[") \o JoinComma(items) \o Punct("]")

\* json.dumps of a dict: members is the sequence of <<key, encoded value>>
\* in insertion order
JObject(members) ==
    Punct("{")
    \o JoinComma([i \in 1..Len(members) |->
                    JString(members[i][1]) \o Punct(":") \o members[i][2]])
    \o Punct("}")

IsPunct(toks, i, ch) ==
    i <= Len(toks) /\ toks[i].kind = "punct" /\ toks[i].ch = ch

ParseError == [ok |-> FALSE, next |-> 0]

\* json.loads, by recursive descent: JsonValue(toks, i) reads one value at
\* position i and yields it with the position after it; an object decodes to
\* a function of its keys, an array to a sequence
RECURSIVE JsonValue(_, _), JsonMembers(_, _, _), JsonElements(_, _, _)
JsonValue(toks, i) ==
    IF i > Len(toks) THEN ParseError
    ELSE IF toks[i].kind = "string"
    THEN [ok |-> TRUE, value |-> toks[i].str, next |-> i + 1]
    ELSE IF toks[i].kind = "number"
    THEN [ok |-> TRUE, value |-> toks[i].num, next |-> i + 1]
    ELSE IF IsPunct(toks, i, "{")
    THEN IF IsPunct(toks, i + 1, "}")
         THEN [ok |-> TRUE, value |-> <<>>, next |-> i + 2]
         ELSE JsonMembers(toks, i + 1, <<>>)
    ELSE IF IsPunct(toks, i, "[")
    THEN IF IsPunct(toks, i + 1, "]")
         THEN [ok |-> TRUE, value |-> <<>>, next |-> i + 2]
         ELSE JsonElements(toks, i + 1, <<>>)
    ELSE ParseError

\* the members of an object from position i on, acc holding those read
JsonMembers(toks, i, acc) ==
    IF ~(i + 1 <= Len(toks) /\ toks[i].kind = "string" /\ IsPunct(toks, i + 1, ":"))
    THEN ParseError
    ELSE LET key == toks[i].str
             v   == JsonValue(toks, i + 2)
         IN  IF ~v.ok THEN ParseError
             ELSE LET obj == [k \in DOMAIN acc \cup {key} |->
                                IF k = key THEN v.value ELSE acc[k]]
                  IN  IF IsPunct(toks, v.next, ",")
                      THEN JsonMembers(toks, v.next + 1, obj)
                      ELSE IF IsPunct(toks, v.next, "}")
                      THEN [ok |-> TRUE, value |-> obj, next |-> v.next + 1]
                      ELSE ParseError

\* the elements of an array from position i on, acc holding those read
JsonElements(toks, i, acc) ==
    LET v == JsonValue(toks, i)
    IN  IF ~v.ok THEN ParseError
        ELSE IF IsPunct(toks, v.next, ",")
        THEN JsonElements(toks, v.next + 1, Append(acc, v.value))
        ELSE IF IsPunct(toks, v.next, "]")
        THEN [ok |-> TRUE, value |-> Append(acc, v.value), next |-> v.next + 1]
        ELSE ParseError

\* json.loads(str): the value, or a failure when str is not one JSON value
json_loads(str) ==
    LET v == JsonValue(str, 1)
    IN  IF v.ok /\ v.next = Len(str) + 1 THEN v ELSE ParseError

(***************************************************************************)
(* create_visualization                                                    *)
(***************************************************************************)
\* an optional position is <<j>>, or <<>> for None
NoIndex == <<>>

\* the head looked up from the end of the list
HeadIndexLast(dependencies, dep) ==
    LET js == {j \in 1..Len(dependencies) : dependencies[j].token = dep.head}
    IN  IF js = {} THEN <<>>
        ELSE <<(CHOOSE j \in js : \A k \in js : j >= k) - 1>>

\* next((j for j, d in enumerate(dependencies) if d['token'] == dep['head']),
\* None): the 0-based position, or None
HeadIndex(dependencies, dep) ==
    LET js == {j \in 1..Len(dependencies) : dependencies[j].token = dep.head}
    IN  IF js = {} THEN NoIndex
        ELSE <<(CHOOSE j \in js : \A k \in js : j <= k) - 1>>

\* the node numbered from 1
NodeOneBased(i, dep) ==
    [id    |-> i + 1,
     label |-> dep.token \o "\n(" \o dep.pos \o ")",
     pos   |-> dep.pos,
     dep   |-> dep.dep]

\* the node appended for the dependency at 0-based position i
Node(i, dep) ==
    [id    |-> i,
     label |-> dep.token \o "\n(" \o dep.pos \o ")",
     pos   |-> dep.pos,
     dep   |-> dep.dep]

\* the edges appended for the dependencies from 1-based position k on
RECURSIVE Edges(_, _)
Edges(dependencies, k) ==
    IF k > Len(dependencies) THEN <<>>
    ELSE LET dep      == dependencies[k]
             head_idx == HeadIndex(dependencies, dep)
         IN  (IF head_idx # NoIndex
              THEN <<[from |-> head_idx[1], to |-> k - 1, label |-> dep.dep]>>
              ELSE <<>>)
             \o Edges(dependencies, k + 1)

Nodes(dependencies) ==
    [k \in 1..Len(dependencies) |-> Node(k - 1, dependencies[k])]

DumpNode(n) ==
    JObject(<< <<"id", JNumber(n.id)>>, <<"label", JString(n.label)>>,
               <<"pos", JString(n.pos)>>, <<"dep", JString(n.dep)>> >>)

DumpEdge(e) ==
    JObject(<< <<"from", JNumber(e.from)>>, <<"to", JNumber(e.to)>>,
               <<"label", JString(e.label)>> >>)

\* json.dumps({'nodes': nodes, 'edges': edges})
DumpGraph(nodes, edges) ==
    JObject(<< <<"nodes", JArray([i \in 1..Len(nodes) |-> DumpNode(nodes[i])])>>,
               <<"edges", JArray([i \in 1..Len(edges) |-> DumpEdge(edges[i])])>> >>)

create_visualization(dependencies) ==
    IF dependencies = <<>>
    THEN PlainText("No dependencies to visualize")
    ELSE DumpGraph(Nodes(dependencies), Edges(dependencies, 1))

(***************************************************************************)
(* The front ends.                                                         *)
(***************************************************************************)
\* DependencyParser(): load_models, then init_database on a new connection.
\* The parser it replaces is dropped, which closes its connection and rolls
\* back what it had not committed
NewParser(d, available, spacyFound, pipelineLoads) ==
    LET m == load_models(available, spacyFound, pipelineLoads)
    IN  [nlp |-> m.nlp, transformer_parser |-> m.transformer_parser,
         db |-> init_database(d), txn |-> NoTxn]

\* for model_name, result in results.items(): save_to_database(text, result).
\* results is the sequence of <<model_name, result>> in insertion order; the
\* loop ends at the first call that raises
RECURSIVE SaveAll(_, _, _, _, _)
SaveAll(d, t, text, results, saved) ==
    IF results = <<>>
    THEN [db |-> d, txn |-> t, saved |-> saved, raised |-> FALSE]
    ELSE LET r == save_to_database(d, t, text, Head(results)[2])
         IN  IF r.raised
             THEN [db |-> r.db, txn |-> r.txn, saved |-> saved, raised |-> TRUE]
             ELSE SaveAll(r.db, r.txn, text, Tail(results),
                          Append(saved, [model |-> Head(results)[1],
                                         sentence_id |-> r.value]))

\* the results dict filled without the "error" not in ... tests
ResultsUnfiltered(spacy_results, transformer_results) ==
    (IF spacy_results # Unbound
     THEN <<<<"spaCy", spacy_results>>>> ELSE <<>>)
    \o
    (IF transformer_results # Unbound
     THEN <<<<"Transformers", transformer_results>>>> ELSE <<>>)

\* the results dict of a front end: the models that returned no error
Results(spacy_results, transformer_results) ==
    (IF spacy_results # Unbound /\ "error" \notin DOMAIN spacy_results
     THEN <<<<"spaCy", spacy_results>>>> ELSE <<>>)
    \o
    (IF transformer_results # Unbound /\ "error" \notin DOMAIN transformer_results
     THEN <<<<"Transformers", transformer_results>>>> ELSE <<>>)

\* demo.py main with the parsed arguments args, p being the DependencyParser
\* it constructs; doc and outcome are what the models yield when called,
\* stats what get_statistics returns when called
demo_main(p, args, doc, outcome, stats) ==
    LET sp == IF args.model \in {"spacy", "both"}
              THEN parse_with_spacy(p.nlp, args.text, doc) ELSE Unbound
        tr == IF args.model \in {"transformers", "both"}
              THEN parse_with_transformers(p.transformer_parser, args.text, outcome)
              ELSE Unbound
        results == Results(sp, tr)
        quiet == [parser |-> p, db |-> p.db, txn |-> p.txn,
                  spacy_results |-> Unbound, transformer_results |-> Unbound,
                  saved |-> <<>>, printed |-> Unbound]
    IN  IF args.stats
        THEN [quiet EXCEPT !.printed = stats]
        ELSE IF strip(args.text) = <<>>
        THEN quiet
        ELSE IF results # <<>> /\ args.save
        THEN LET s == SaveAll(p.db, p.txn, args.text, results, <<>>)
             IN  [parser |-> p, db |-> s.db, txn |-> s.txn,
                  spacy_results |-> sp, transformer_results |-> tr,
                  saved |-> s.saved, printed |-> Unbound]
        ELSE [quiet EXCEPT !.spacy_results = sp, !.transformer_results = tr]

\* one run of the Streamlit main of 0107.py on parser p (kept in
\* st.session_state) with the widget values in; what it draws afterwards from
\* st.session_state reads the store and the models only
ui_main(p, available, in, doc, outcome) ==
    LET sp == IF in.model_choice \in {"spaCy", "Both"}
              THEN parse_with_spacy(p.nlp, in.text_input, doc) ELSE Unbound
        tr == IF in.model_choice \in {"Transformers", "Both"} /\ available
              THEN parse_with_transformers(p.transformer_parser, in.text_input, outcome)
              ELSE Unbound
        results == Results(sp, tr)
        quiet == [db |-> p.db, txn |-> p.txn,
                  spacy_results |-> Unbound, transformer_results |-> Unbound,
                  saved |-> <<>>]
    IN  IF ~in.pressed \/ strip(in.text_input) = <<>>
        THEN quiet
        ELSE IF results # <<>> /\ in.save_to_db
        THEN LET s == SaveAll(p.db, p.txn, in.text_input, results, <<>>)
             IN  [db |-> s.db, txn |-> s.txn,
                  spacy_results |-> sp, transformer_results |-> tr,
                  saved |-> s.saved]
        ELSE [quiet EXCEPT !.spacy_results = sp, !.transformer_results = tr]

(***************************************************************************)
(* The inputs the actions draw.                                            *)
(***************************************************************************)
\* a spaCy result whose last dependency record lacks 'head_pos' (the shape
\* of the records test_create_visualization builds)
WithoutHeadPos(results) ==
    LET deps == results.dependencies
        n    == Len(deps)
        keep == DOMAIN deps[n] \ {"head_pos"}
    IN  [results EXCEPT !.dependencies =
            [i \in 1..n |-> IF i < n THEN deps[i]
                            ELSE [k \in keep |-> deps[n][k]]]]

\* the results a caller hands to save_to_database with a text
SaveInputs(text) ==
    LET spacy == {parse_with_spacy("en_core_web_sm", text, doc) : doc \in Docs(text)}
    IN  spacy
        \cup {WithoutHeadPos(r) : r \in {x \in spacy : x.dependencies # <<>>}}
        \cup {parse_with_transformers("token-classification", text,
                                      [raised |-> FALSE, results |-> <<>>])}

\* the words ws as a text, one space between two words
RECURSIVE JoinWords(_)
JoinWords(ws) ==
    IF ws = <<>> THEN <<>>
    ELSE IF Len(ws) = 1 THEN ws
    ELSE <<ws[1], Space>> \o JoinWords(Tail(ws))

\* the texts handed to the parse methods: up to MaxTokens words, or blank
ParseTexts == {JoinWords(ws) : ws \in SeqsUpTo(Words, MaxTokens)} \cup {<<Space>>}

\* the records of the lists handed to create_visualization directly: the
\* shape test_create_visualization builds, the head a token or not
ListRecords ==
    {[token |-> t, pos |-> PosTag(t), dep |-> d, head |-> h] :
        t \in Words, d \in {"nsubj", "ROOT"}, h \in Words \cup {"runs"}}

ListInputs == SeqsUpTo(ListRecords, MaxListLen)

\* the texts, the arguments and the widget values of the front ends
FrontTexts == { <<Space>>, <<"fox">> }

DemoArgs ==
    [text : FrontTexts, model : {"spacy", "transformers", "both"},
     save : BOOLEAN, stats : {FALSE}]
    \cup
    [text : {<<"fox">>}, model : {"spacy", "both"},
     save : BOOLEAN, stats : {TRUE}]

UiInputs ==
    [pressed : {TRUE}, text_input : FrontTexts,
     model_choice : {"spaCy", "Transformers", "Both"}, save_to_db : BOOLEAN]
    \cup
    [pressed : {FALSE}, text_input : {<<"fox">>},
     model_choice : {"spaCy"}, save_to_db : {TRUE}]

\* batches of sample rows and user rows in the connection's view
IsSample(text) == \E k \in 1..Len(sample_sentences) : sample_sentences[k] = text

NumInits(view) ==
    Cardinality({i \in 1..Len(view.sentences) :
                    view.sentences[i].text = sample_sentences[1]})

NumSaved(view) ==
    Cardinality({i \in 1..Len(view.sentences) : ~IsSample(view.sentences[i].text)})

View == ConnView(db, txn)

\* dependency labels and part-of-speech tags of the spaCy English models
DepLabels ==
    <<"ROOT", "nsubj", "det", "amod", "prep", "pobj", "dobj", "aux", "advmod",
      "cc", "conj", "punct", "compound", "poss">>

PosLabels ==
    <<"NOUN", "VERB", "DET", "ADJ", "ADP", "ADV", "AUX", "CCONJ", "PRON",
      "PROPN", "PUNCT", "NUM", "PART", "INTJ">>

\* a dependency record carrying the k-th label and the k-th tag
LabelRecord(k) ==
    [token |-> "fox", pos |-> PosLabels[k], dep |-> DepLabels[k],
     head |-> "jumps", head_pos |-> PosLabels[k]]

\* a list holding counts[k] records of the k-th label, for every k
RECURSIVE LabelRecords(_, _)
LabelRecords(counts, k) ==
    IF k > Len(counts) THEN <<>>
    ELSE [i \in 1..counts[k] |-> LabelRecord(k)] \o LabelRecords(counts, k + 1)

\* how often each label occurs in a list saved for the statistics: k labels
\* with the counts 1, 2, ..., k (no two equal), with 1, 1, 2, ..., k - 1 (the
\* two smallest equal), with 1, 2, ..., k - 1, k - 1 (the two largest equal),
\* or up to three labels of count 2 (all equal)
LabelCounts ==
    {[i \in 1..k |-> i] : k \in 0..MaxLabels}
    \cup {[i \in 1..k |-> IF i = 1 THEN 1 ELSE i - 1] : k \in 2..MaxLabels}
    \cup {[i \in 1..k |-> IF i = k THEN k - 1 ELSE i] : k \in 2..MaxLabels}
    \cup {[i \in 1..k |-> 2] : k \in 1..3}

\* the spaCy-shaped results whose dependencies are the records of counts
LabelResults(counts) ==
    [model |-> "spaCy", dependencies |-> LabelRecords(counts, 1),
     sentences |-> <<>>, entities |-> <<>>]

(***************************************************************************)
(* Actions.                                                                *)
(***************************************************************************)
\* a test or a front end constructs a DependencyParser
Construct ==
    /\ NumInits(db) < MaxInits
    /\ \E spacyFound, pipelineLoads \in BOOLEAN :
         \E p \in {NewParser(db, TRANSFORMERS_AVAILABLE, spacyFound, pipelineLoads)} :
             /\ nlp' = p.nlp
             /\ transformer_parser' = p.transformer_parser
             /\ db' = p.db
             /\ txn' = p.txn
    /\ call' = [op |-> "DependencyParser"]
    /\ ret' = Unbound
    /\ UNCHANGED TRANSFORMERS_AVAILABLE

ParseWithSpacy ==
    /\ \E text \in ParseTexts : \E doc \in Docs(text) :
         /\ call' = [op |-> "parse_with_spacy", text |-> text, doc |-> doc]
         /\ ret' = parse_with_spacy(nlp, text, doc)
    /\ UNCHANGED <<TRANSFORMERS_AVAILABLE, nlp, transformer_parser, db, txn>>

ParseWithTransformers ==
    /\ \E text \in ParseTexts : \E outcome \in PipelineOutcomes(text) :
         /\ call' = [op |-> "parse_with_transformers", text |-> text,
                     outcome |-> outcome]
         /\ ret' = parse_with_transformers(transformer_parser, text, outcome)
    /\ UNCHANGED <<TRANSFORMERS_AVAILABLE, nlp, transformer_parser, db, txn>>

\* create_visualization on the dependencies parse_with_spacy just returned
VisualizeParsed ==
    /\ call.op = "parse_with_spacy"
    /\ "dependencies" \in DOMAIN ret
    /\ call' = [op |-> "create_visualization", dependencies |-> ret.dependencies]
    /\ ret' = create_visualization(ret.dependencies)
    /\ UNCHANGED <<TRANSFORMERS_AVAILABLE, nlp, transformer_parser, db, txn>>

\* create_visualization on a list the caller built
CreateVisualization ==
    /\ call.op = "input"
    /\ call' = [op |-> "create_visualization", dependencies |-> call.dependencies]
    /\ ret' = create_visualization(call.dependencies)
    /\ UNCHANGED <<TRANSFORMERS_AVAILABLE, nlp, transformer_parser, db, txn>>

SaveToDatabase ==
    /\ NumSaved(View) < MaxSaved
    /\ \E text \in Texts : \E results \in SaveInputs(text) :
         \E r \in {save_to_database(db, txn, text, results)} :
             /\ db' = r.db
             /\ txn' = r.txn
             /\ call' = [op |-> "save_to_database", text |-> text,
                         results |-> results]
             /\ ret' = [raised |-> r.raised, value |-> r.value]
    /\ UNCHANGED <<TRANSFORMERS_AVAILABLE, nlp, transformer_parser>>

GetStatistics ==
    /\ \E stats \in get_statistics(View) :
         /\ call' = [op |-> "get_statistics"]
         /\ ret' = stats
    /\ UNCHANGED <<TRANSFORMERS_AVAILABLE, nlp, transformer_parser, db, txn>>

\* one run of demo.py
DemoMain ==
    /\ NumInits(db) < MaxInits
    /\ \E spacyFound, pipelineLoads \in BOOLEAN :
       \E p \in {NewParser(db, TRANSFORMERS_AVAILABLE, spacyFound, pipelineLoads)} :
       \E stats \in get_statistics(ConnView(p.db, p.txn)) :
       \E args \in DemoArgs :
       \E doc \in Docs(args.text) :
       \E outcome \in {o \in PipelineOutcomes(args.text) :
                         args.model = "spacy" => o.raised} :
       \E r \in {demo_main(p, args, doc, outcome, stats)} :
         /\ NumSaved(r.db) <= MaxSaved
         /\ nlp' = r.parser.nlp
         /\ transformer_parser' = r.parser.transformer_parser
         /\ db' = r.db
         /\ txn' = r.txn
         /\ call' = [op |-> "demo_main", args |-> args,
                     spacy_results |-> r.spacy_results,
                     transformer_results |-> r.transformer_results,
                     saved |-> r.saved]
         /\ ret' = r.printed
    /\ UNCHANGED TRANSFORMERS_AVAILABLE

\* one run of the Streamlit script: the first run of a session constructs the
\* parser (no button is pressed yet), every run ends with the Quick Stats of
\* get_statistics
UiMain ==
    /\ \E first \in {b \in BOOLEAN : b => NumInits(db) < MaxInits} :
       \E spacyFound, pipelineLoads \in {b \in BOOLEAN : first \/ b} :
       \E in \in {i \in UiInputs : first => ~i.pressed} :
       \E p \in {IF first
                 THEN NewParser(db, TRANSFORMERS_AVAILABLE, spacyFound, pipelineLoads)
                 ELSE [nlp |-> nlp, transformer_parser |-> transformer_parser,
                       db |-> db, txn |-> txn]} :
       \E doc \in Docs(in.text_input) :
       \E outcome \in {o \in PipelineOutcomes(in.text_input) :
                         in.model_choice = "spaCy" => o.raised} :
       \E r \in {ui_main(p, TRANSFORMERS_AVAILABLE, in, doc, outcome)} :
       \E stats \in get_statistics(ConnView(r.db, r.txn)) :
         /\ NumSaved(r.db) <= MaxSaved
         /\ nlp' = p.nlp
         /\ transformer_parser' = p.transformer_parser
         /\ db' = r.db
         /\ txn' = r.txn
         /\ call' = [op |-> "ui_main", in |-> in, first |-> first,
                     spacy_results |-> r.spacy_results,
                     transformer_results |-> r.transformer_results,
                     saved |-> r.saved]
         /\ ret' = stats
    /\ UNCHANGED TRANSFORMERS_AVAILABLE

(***************************************************************************)
(* Specifications.                                                         *)
(***************************************************************************)
\* the state after DependencyParser() on a machine without the database file
Init ==
    /\ TRANSFORMERS_AVAILABLE \in BOOLEAN
    /\ \E spacyFound, pipelineLoads \in BOOLEAN :
       \E p \in {NewParser(NoFile, TRANSFORMERS_AVAILABLE, spacyFound, pipelineLoads)} :
         /\ nlp = p.nlp
         /\ transformer_parser = p.transformer_parser
         /\ db = p.db
         /\ txn = p.txn
    /\ call = [op |-> "DependencyParser"]
    /\ ret = Unbound

\* the store: the operations of DependencyParser that read or write it
Next ==
    \/ Construct
    \/ SaveToDatabase
    \/ GetStatistics

Spec == Init /\ [][Next]_vars

\* the parse methods, and the visualization of what they return
NextParse ==
    \/ Construct
    \/ ParseWithSpacy
    \/ ParseWithTransformers
    \/ VisualizeParsed

SpecParse == Init /\ [][NextParse]_vars

\* create_visualization as a function of a list built by the caller
InitList ==
    /\ TRANSFORMERS_AVAILABLE = FALSE
    /\ \E p \in {NewParser(NoFile, FALSE, TRUE, FALSE)} :
         /\ nlp = p.nlp
         /\ transformer_parser = p.transformer_parser
         /\ db = p.db
         /\ txn = p.txn
    /\ \E dependencies \in ListInputs :
         call = [op |-> "input", dependencies |-> dependencies]
    /\ ret = Unbound

NextList == CreateVisualization

SpecList == InitList /\ [][NextList]_vars

\* the front ends
NextFront ==
    \/ DemoMain
    \/ UiMain

SpecFront == Init /\ [][NextFront]_vars

\* get_statistics on a store of many labels: a new parser on a machine
\* without the database file, then one save_to_database of a list of records
InitStats ==
    /\ TRANSFORMERS_AVAILABLE = FALSE
    /\ \E p \in {NewParser(NoFile, FALSE, TRUE, FALSE)} :
       \E counts \in LabelCounts :
       \E r \in {save_to_database(p.db, p.txn, <<"fox">>, LabelResults(counts))} :
         /\ nlp = p.nlp
         /\ transformer_parser = p.transformer_parser
         /\ db = r.db
         /\ txn = r.txn
         /\ call = [op |-> "save_to_database", text |-> <<"fox">>,
                    results |-> LabelResults(counts)]
         /\ ret = [raised |-> r.raised, value |-> r.value]

NextStats == GetStatistics

SpecStats == InitStats /\ [][NextStats]_vars

(***************************************************************************)
(* Properties of the store (Spec).                                         *)
(***************************************************************************)
\* a step in which save_to_database ran and returned
SaveReturned == call'.op = "save_to_database" /\ ~ret'.raised

RowsWithId(rows, id) == {i \in 1..Len(rows) : rows[i].id = id}

\* C1: save_to_database(text, results), when it returns, has appended exactly
\* one row to the sentences table, the row's text is the text passed in, the
\* value returned is that row's id (an integer, never None), and the one
\* sentences row with the returned id holds exactly that text.
C1_SaveInsertsOneSentence ==
    [][SaveReturned =>
         LET before == View.sentences
             after  == View'.sentences
         IN  /\ Len(after) = Len(before) + 1
             /\ SubSeq(after, 1, Len(before)) = before
             /\ after[Len(after)].text = call'.text
             /\ after[Len(after)].id = ret'.value
             /\ ret'.value \in Nat \ {0}
             /\ RowsWithId(after, ret'.value) = {Len(after)}
             /\ db'.sentences = after]_vars

\* C1 witness: a save of a non-empty text returned, after an earlier save,
\* and the row with the returned id holds the text
C1_Witness ==
    /\ call.op = "save_to_database"
    /\ ~ret.raised
    /\ call.text # <<>>
    /\ NumSaved(db) = 2
    /\ \E i \in RowsWithId(db.sentences, ret.value) :
         db.sentences[i].text = call.text

\* the dependencies row the claim expects for record dep
ExpectedDependencyRow(row, sentence_id, dep, model) ==
    /\ row.sentence_id = sentence_id
    /\ row.token_text = dep.token
    /\ row.token_pos = dep.pos
    /\ row.dependency_label = dep.dep
    /\ row.head_text = dep.head
    /\ row.head_pos = dep.head_pos
    /\ row.model_type = model

\* C2: save_to_database, when it returns, has appended one dependencies row
\* per element of results['dependencies'], in list order, each with
\* sentence_id the returned id, the five text columns copied from the
\* element and model_type results['model']; without a 'dependencies' key it
\* appends the sentence row and no dependencies row.
C2_SaveInsertsDependencies ==
    [][SaveReturned =>
         LET before  == View.dependencies
             after   == View'.dependencies
             results == call'.results
             n       == IF "dependencies" \in DOMAIN results
                        THEN Len(results.dependencies) ELSE 0
         IN  /\ Len(after) = Len(before) + n
             /\ SubSeq(after, 1, Len(before)) = before
             /\ \A i \in 1..n :
                  ExpectedDependencyRow(after[Len(before) + i], ret'.value,
                                        results.dependencies[i], results.model)
             /\ Len(View'.sentences) = Len(View.sentences) + 1
             /\ db'.dependencies = after]_vars

\* C2 witness: a save of a two-token spaCy result returned, and the last two
\* dependencies rows carry the returned id and different token texts
C2_Witness ==
    /\ call.op = "save_to_database"
    /\ ~ret.raised
    /\ "dependencies" \in DOMAIN call.results
    /\ Len(call.results.dependencies) = 2
    /\ LET d == db.dependencies
       IN  /\ Len(d) >= 2
           /\ d[Len(d)].sentence_id = ret.value
           /\ d[Len(d) - 1].sentence_id = ret.value
           /\ d[Len(d) - 1].token_text # d[Len(d) - 1].head_text

\* C3: get_statistics returns a record with exactly the keys sentence_count,
\* dependency_count, common_dependencies and common_pos_tags; the two counts
\* are the numbers of rows the connection sees in the two tables, both
\* non-negative; and the call leaves both tables as they were.
C3_StatisticsCounts ==
    [][call'.op = "get_statistics" =>
         /\ DOMAIN ret' = {"sentence_count", "dependency_count",
                           "common_dependencies", "common_pos_tags"}
         /\ ret'.sentence_count = Len(View'.sentences)
         /\ ret'.dependency_count = Len(View'.dependencies)
         /\ ret'.sentence_count >= 0
         /\ ret'.dependency_count >= 0
         /\ db' = db
         /\ txn' = txn]_vars

\* C3 witness: get_statistics ran on a store holding saved dependencies, and
\* the two counts differ
C3_Witness ==
    /\ call.op = "get_statistics"
    /\ ret.dependency_count >= 2
    /\ ret.sentence_count > Len(sample_sentences)
    /\ ret.sentence_count # ret.dependency_count

\* the labels of column col in rows, and the rows carrying label v
LabelsOf(rows, col) == {rows[i][col] : i \in 1..Len(rows)}

CountOf(rows, col, v) == Cardinality({i \in 1..Len(rows) : rows[i][col] = v})

\* the (label, count) list the claim describes for column col of rows
TopTen(list, rows, col) ==
    LET n      == Len(list)
        listed == {list[i][1] : i \in 1..n}
    IN  /\ n <= 10
        /\ \A i, j \in 1..n : i # j => list[i][1] # list[j][1]
        /\ \A i \in 1..(n - 1) : list[i][2] >= list[i + 1][2]
        /\ \A i \in 1..n : /\ list[i][1] \in LabelsOf(rows, col)
                            /\ list[i][2] = CountOf(rows, col, list[i][1])
        /\ \A v \in LabelsOf(rows, col) \ listed :
             n > 0 /\ CountOf(rows, col, v) <= list[n][2]
        /\ (list = <<>>) <=> (rows = <<>>)

\* C11: get_statistics returns in common_dependencies, and likewise in
\* common_pos_tags (grouped by token_pos), at most 10 (label, count) pairs
\* with pairwise distinct labels, ordered by count non-increasing, each count
\* the number of dependencies rows having that label, every label left out
\* having a count no greater than the smallest count listed; both lists are
\* empty exactly when the dependencies table is empty.
C11_TopTenByCount ==
    call.op = "get_statistics" =>
        /\ TopTen(ret.common_dependencies, View.dependencies, "dependency_label")
        /\ TopTen(ret.common_pos_tags, View.dependencies, "token_pos")

\* C11 witness: get_statistics ran on a table of more than ten labels, both
\* lists hold ten pairs, and a label left out of common_dependencies has the
\* count of the last pair listed
C11_Witness ==
    /\ call.op = "get_statistics"
    /\ Cardinality(LabelsOf(View.dependencies, "dependency_label")) > 10
    /\ Len(ret.common_dependencies) = 10
    /\ Len(ret.common_pos_tags) = 10
    /\ ret.common_dependencies[1][2] > ret.common_dependencies[10][2]
    /\ \E v \in LabelsOf(View.dependencies, "dependency_label") :
         /\ \A i \in 1..10 : ret.common_dependencies[i][1] # v
         /\ CountOf(View.dependencies, "dependency_label", v)
              = ret.common_dependencies[10][2]

\* a step in which save_to_database ran and raised while inserting
SaveRaised == call'.op = "save_to_database" /\ ret'.raised

\* C12: save_to_database is all-or-nothing: when it fails while inserting
\* dependencies rows, the connection sees afterwards the rows it saw before
\* (so a later get_statistics counts no row of the failed call), and the
\* commit of a later successful call makes persistent the rows of that call
\* only.
C12_SaveAllOrNothing ==
    [][/\ SaveRaised => View' = View
       /\ SaveReturned =>
             LET results == call'.results
                 n       == IF "dependencies" \in DOMAIN results
                            THEN Len(results.dependencies) ELSE 0
             IN  /\ Len(db'.sentences) = Len(db.sentences) + 1
                 /\ Len(db'.dependencies) = Len(db.dependencies) + n]_vars

\* in the content s of the store, sentence ids are unique and every
\* dependencies row refers to a sentences row
IdsConsistent(s) ==
    /\ \A i, j \in 1..Len(s.sentences) :
         s.sentences[i].id = s.sentences[j].id => i = j
    /\ \A k \in 1..Len(s.dependencies) :
         RowsWithId(s.sentences, s.dependencies[k].sentence_id) # {}

\* C13: in every reachable state of the store (the committed content and
\* what the connection sees) sentence ids are unique and every dependencies
\* row's sentence_id is the id of an existing sentences row; the id a
\* save_to_database call returns is greater than the id the call before it
\* returned and than the id of every row that existed before the call, the
\* sample rows of init_database included.
C13_SentenceIds ==
    /\ [](IdsConsistent(db) /\ IdsConsistent(View))
    /\ [][SaveReturned =>
            /\ \A i \in 1..Len(View.sentences) :
                 View.sentences[i].id < ret'.value
            /\ (call.op = "save_to_database" /\ ~ret.raised) =>
                 ret.value < ret'.value]_vars

\* C13 witness: a second save returned, on a store initialised twice, with
\* an id above the ten sample rows and the row of the first save, and a
\* dependencies row refers to it
C13_Witness ==
    /\ call.op = "save_to_database"
    /\ ~ret.raised
    /\ NumInits(db) = 2
    /\ NumSaved(db) = 2
    /\ ret.value = Len(db.sentences)
    /\ ret.value > 2 * Len(sample_sentences) + 1
    /\ \E k \in 1..Len(db.dependencies) :
         db.dependencies[k].sentence_id = ret.value

\* the number of sentences rows holding sample sentence k
SampleCount(rows, k) ==
    Cardinality({i \in 1..Len(rows) : rows[i].text = sample_sentences[k]})

\* C9: init_database is idempotent on an existing database: after any number
\* of initialisations the sentences table holds each sample text at most
\* once.
C9_SamplesAtMostOnce ==
    \A k \in 1..Len(sample_sentences) : SampleCount(View.sentences, k) <= 1

(***************************************************************************)
(* Properties of the parse methods (SpecParse).                            *)
(***************************************************************************)
DependencyKeys ==
    {"token", "pos", "dep", "head", "head_pos", "lemma", "is_punct", "is_space"}

\* C4: with the spaCy model loaded, parse_with_spacy(text) returns a record
\* without an 'error' key, with model 'spaCy' and a 'dependencies' list of one
\* record per token of the Doc, in token order, each with the eight keys
\* token, pos, dep, head, head_pos, lemma, is_punct and is_space; for the
\* empty text the key is present and the list is empty.
C4_SpacyResultShape ==
    (call.op = "parse_with_spacy" /\ nlp # None) =>
        /\ "error" \notin DOMAIN ret
        /\ "dependencies" \in DOMAIN ret
        /\ ret.model = "spaCy"
        /\ Len(ret.dependencies) = Len(call.doc.tokens)
        /\ \A i \in 1..Len(ret.dependencies) :
             LET dep   == ret.dependencies[i]
                 token == call.doc.tokens[i]
             IN  /\ DOMAIN dep = DependencyKeys
                 /\ dep.token = token.text
                 /\ dep.pos = token.pos_
                 /\ dep.dep = token.dep_
                 /\ dep.head = call.doc.tokens[token.head].text
        /\ (call.text = <<>> => ret.dependencies = <<>>)

\* C4 witness: the loaded model parsed a two-word text into two tokens, the
\* first headed by the second
C4_Witness ==
    /\ call.op = "parse_with_spacy"
    /\ nlp # None
    /\ Len(call.doc.tokens) = 2
    /\ call.doc.tokens[1].head = 2
    /\ Len(ret.dependencies) = 2
    /\ ret.dependencies[1].token = "fox"
    /\ ret.dependencies[1].head = "jumps"

\* C6: a parse method whose model is not loaded, and parse_with_transformers
\* when the pipeline call raises, return a record whose only key is 'error'
\* (with the fixed message when the model is not loaded), so without
\* 'dependencies' or 'results', and leave the store as it was.
C6_ParseFailureIsAValue ==
    [][/\ (call'.op = "parse_with_spacy" /\ nlp = None) =>
            /\ ret' = [error |-> "spaCy model not loaded"]
            /\ db' = db /\ txn' = txn
       /\ (call'.op = "parse_with_transformers" /\ transformer_parser = None) =>
            /\ ret' = [error |-> "Transformer model not loaded"]
            /\ db' = db /\ txn' = txn
       /\ (call'.op = "parse_with_transformers" /\ transformer_parser # None
             /\ call'.outcome.raised) =>
            /\ DOMAIN ret' = {"error"}
            /\ db' = db /\ txn' = txn]_vars

\* C6 witness: the loaded pipeline raised and parse_with_transformers
\* returned an error record
C6_Witness ==
    /\ call.op = "parse_with_transformers"
    /\ transformer_parser # None
    /\ call.outcome.raised
    /\ "error" \in DOMAIN ret

\* the decoded graph of a create_visualization result
Graph == json_loads(ret).value

\* whether following the edges es from node a reaches node b in at most fuel
\* further steps
RECURSIVE Reaches(_, _, _, _)
Reaches(es, a, b, fuel) ==
    \E k \in 1..Len(es) :
        /\ es[k].from = a
        /\ \/ es[k].to = b
           \/ fuel > 0 /\ Reaches(es, es[k].to, b, fuel - 1)

\* C8: the edges create_visualization produces for the dependency records of
\* a parsed sentence form a forest directed from head to dependent: no edge
\* has from equal to to, and no node reaches itself along the edges.
C8_EdgesFormAForest ==
    (call.op = "create_visualization" /\ call.dependencies # <<>>) =>
        LET es == Graph.edges
        IN  /\ \A k \in 1..Len(es) : es[k].from # es[k].to
            /\ \A a \in 0..(Len(call.dependencies) - 1) :
                 ~Reaches(es, a, a, Len(es))

(***************************************************************************)
(* Properties of create_visualization on any list (SpecList).              *)
(***************************************************************************)
\* C5: create_visualization returns the text "No dependencies to visualize"
\* for the empty list; for a non-empty list it returns JSON that decodes to
\* an object with exactly the keys 'nodes' and 'edges', nodes holding one
\* entry per dependency, in input order, with id the 0-based position and pos
\* and dep copied.
C5_VisualizationNodes ==
    call.op = "create_visualization" =>
        IF call.dependencies = <<>>
        THEN ret = PlainText("No dependencies to visualize")
        ELSE /\ json_loads(ret).ok
             /\ DOMAIN Graph = {"nodes", "edges"}
             /\ Len(Graph.nodes) = Len(call.dependencies)
             /\ \A i \in 1..Len(call.dependencies) :
                  /\ Graph.nodes[i].id = i - 1
                  /\ Graph.nodes[i].pos = call.dependencies[i].pos
                  /\ Graph.nodes[i].dep = call.dependencies[i].dep

\* C5 witness: a two-element list was visualized and the result decodes
C5_Witness ==
    /\ call.op = "create_visualization"
    /\ Len(call.dependencies) = 2
    /\ call.dependencies[1].dep # call.dependencies[2].dep
    /\ json_loads(ret).ok
    /\ Len(Graph.nodes) = 2

\* the 1-based positions whose token text is the head text of position i
HeadPositions(deps, i) == {j \in 1..Len(deps) : deps[j].token = deps[i].head}

\* C7: for a non-empty list, the edges hold for every position i exactly one
\* edge {from: j, to: i, label: dep_i} with j the smallest position whose
\* token text equals the head text of i, and no edge to i when no token text
\* equals it; so every node has at most one incoming edge, there are no more
\* edges than nodes, and every endpoint is a node id.
C7_VisualizationEdges ==
    (call.op = "create_visualization" /\ call.dependencies # <<>>) =>
        LET deps == call.dependencies
            es   == Graph.edges
            n    == Len(deps)
        IN  /\ \A i \in 1..n :
                 LET js   == HeadPositions(deps, i)
                     into == {k \in 1..Len(es) : es[k].to = i - 1}
                 IN  IF js = {} THEN into = {}
                     ELSE /\ Cardinality(into) = 1
                          /\ \A k \in into :
                               /\ DOMAIN es[k] = {"from", "to", "label"}
                               /\ es[k].from + 1 \in js
                               /\ \A j \in js : es[k].from + 1 <= j
                               /\ es[k].label = deps[i].dep
            /\ Len(es) <= n
            /\ \A k \in 1..Len(es) :
                 es[k].from \in 0..(n - 1) /\ es[k].to \in 0..(n - 1)

\* C7 witness: a list in which the head text of the second entry is the
\* token text of both entries, and the edge to it starts at position 0
C7_Witness ==
    /\ call.op = "create_visualization"
    /\ Len(call.dependencies) = 2
    /\ HeadPositions(call.dependencies, 2) = {1, 2}
    /\ \E k \in 1..Len(Graph.edges) :
         Graph.edges[k].to = 1 /\ Graph.edges[k].from = 0

(***************************************************************************)
(* Properties of the front ends (SpecFront).                               *)
(***************************************************************************)
\* the text of a front-end run c, and whether the run gets to saving
RunText(c) == IF c.op = "demo_main" THEN c.args.text ELSE c.in.text_input

RunSaves(c) ==
    IF c.op = "demo_main"
    THEN ~c.args.stats /\ strip(c.args.text) # <<>> /\ c.args.save
    ELSE c.in.pressed /\ strip(c.in.text_input) # <<>> /\ c.in.save_to_db

\* whether the run selected the model
Selects(c, name) ==
    IF c.op = "demo_main"
    THEN c.args.model \in {IF name = "spaCy" THEN "spacy" ELSE "transformers", "both"}
    ELSE c.in.model_choice \in {name, "Both"}

\* whether a parse method was called and returned a record without 'error'
Succeeded(result) == result # Unbound /\ "error" \notin DOMAIN result

\* the models of run c whose results are to be saved, in order
ModelsToSave(c) ==
    IF ~RunSaves(c) THEN <<>>
    ELSE (IF Selects(c, "spaCy") /\ Succeeded(c.spacy_results)
          THEN <<"spaCy">> ELSE <<>>)
         \o
         (IF Selects(c, "Transformers") /\ Succeeded(c.transformer_results)
          THEN <<"Transformers">> ELSE <<>>)

DependenciesOf(d, sentence_id) ==
    {i \in 1..Len(d.dependencies) : d.dependencies[i].sentence_id = sentence_id}

\* C10: in one run of a front end save_to_database is called exactly once for
\* each selected model that returned a result without an 'error' key, and
\* only when saving is enabled, the text is not blank after stripping and the
\* run is not a --stats run; every call adds one sentences row holding the
\* text, so two when both models succeed, and the row saved for Transformers
\* has no dependencies rows.
C10_OneSavePerSuccessfulModel ==
    [][call'.op \in {"demo_main", "ui_main"} =>
         LET c     == call'
             saved == c.saved
         IN  /\ [i \in 1..Len(saved) |-> saved[i].model] = ModelsToSave(c)
             /\ (~Selects(c, "spaCy") => c.spacy_results = Unbound)
             /\ (~Selects(c, "Transformers") => c.transformer_results = Unbound)
             /\ NumSaved(db') = NumSaved(db) + Len(saved)
             /\ \A i \in 1..Len(saved) :
                  /\ RowsWithId(db.sentences, saved[i].sentence_id) = {}
                  /\ \E k \in 1..Len(db'.sentences) :
                       /\ RowsWithId(db'.sentences, saved[i].sentence_id) = {k}
                       /\ db'.sentences[k].text = RunText(c)
                  /\ \A j \in 1..Len(saved) :
                       i # j => saved[i].sentence_id # saved[j].sentence_id
                  /\ Cardinality(DependenciesOf(db', saved[i].sentence_id))
                       = IF saved[i].model = "Transformers" THEN 0
                         ELSE Len(c.spacy_results.dependencies)]_vars

\* C10 witness: a run of demo.py with --model both --save in which both
\* models succeeded saved two rows, the spaCy one with dependencies rows
C10_Witness ==
    /\ call.op = "demo_main"
    /\ call.args.model = "both"
    /\ Len(call.saved) = 2
    /\ call.saved[1].model = "spaCy"
    /\ call.saved[2].model = "Transformers"
    /\ DependenciesOf(db, call.saved[1].sentence_id) # {}
    /\ DependenciesOf(db, call.saved[2].sentence_id) = {}

====
